---- MODULE Spec2Model ----
(***************************************************************************)
(* Library API (src/library_api_code): the relational state behind the     *)
(* Flask routes, the request-scoped SQLAlchemy session, and the route      *)
(* handlers of the orders, items, loans, books and user blueprints,        *)
(* together with the bearer-token decorator of app/util/auth.py.           *)
(*                                                                         *)
(* One request is served at a time: a handler action runs a whole view     *)
(* function (routing, decorators, body, commit), then Teardown closes the  *)
(* request (Flask-SQLAlchemy removes the scoped session, which discards    *)
(* whatever the handler left uncommitted).                                 *)
(*                                                                         *)
(* An unhandled Python exception in a view is the HTTP status 500.         *)
(***************************************************************************)
EXTENDS Integers, Sequences, FiniteSets, TLC

VARIABLES
    orders,      \* table orders: the set of order ids
    items,       \* table items: item id -> [order_id, is_sold, description_id]
    descriptions, \* table item_descriptions: the set of description ids
    session,     \* uncommitted Items.is_sold assignments of the current request: item id -> BOOLEAN
    users,       \* table users: user id -> [email, password, role]
    books,       \* table books: book id -> [title, isbn]
    loans,       \* table loans joined with loan_book: loan id -> [user_id, books (list of book ids)]
    tokens,      \* the tokens login has issued so far: [token, at (instant of issue), user_id]
    now,         \* the wall clock, in ticks of 1/TicksPerSecond second
    request,     \* the request being served (route, view arguments, header, context set by decorators)
    response     \* the response of the request being served

vars == <<orders, items, descriptions, session, users, books, loans, tokens, now, request, response>>

----------------------------------------------------------------------------
(* Bounds of the model *)

MaxOrders == 2
MaxItems == 3
MaxBooks == 2
MaxLoans == 2
MaxUsers == 2
MaxTokens == 1
MaxDescriptions == 1
ClockWindow == 2
TicksPerSecond == 2

OrderIds == 1..MaxOrders
ItemIds == 1..MaxItems
DescriptionIds == {1}

(* Python None / SQL NULL in an integer column; primary keys start at 1. *)
NULL == 0

----------------------------------------------------------------------------
(* Helpers *)

Max(S) == CHOOSE m \in S : \A x \in S : x <= m

(* SQLite INTEGER PRIMARY KEY without AUTOINCREMENT: the next rowid is one *)
(* more than the largest rowid in the table.                               *)
NextId(ids) == IF ids = {} THEN 1 ELSE Max(ids) + 1

EmptyFn == [x \in {} |-> TRUE]

Range(s) == {s[k] : k \in 1..Len(s)}

(* The lists a relationship load without ORDER BY can return for a set of rows. *)
LoadOrders(S) ==
    {s \in [1..Cardinality(S) -> S] : \A a, b \in 1..Cardinality(S) : a # b => s[a] # s[b]}

NoRequest == [route |-> "none"]
NoResponse == [status |-> 0, commits |-> 0]

Response(status, commits) == [status |-> status, commits |-> commits]

Idle == request = NoRequest

----------------------------------------------------------------------------
(* The request-scoped session *)

CommitSession_all(tbl, sess) ==
    [i \in DOMAIN tbl |-> IF sess # EmptyFn THEN [tbl[i] EXCEPT !.is_sold = TRUE] ELSE tbl[i]]

(* db.session.commit(): flush the pending is_sold assignments to the items table. *)
CommitSession(tbl, sess) ==
    [i \in DOMAIN tbl |->
        IF i \in DOMAIN sess THEN [tbl[i] EXCEPT !.is_sold = sess[i]] ELSE tbl[i]]

(* Flask-SQLAlchemy's teardown: session.remove() at the end of every request. *)
Teardown_keeps_session ==
    /\ ~Idle
    /\ request' = NoRequest
    /\ response' = NoResponse
    /\ UNCHANGED <<descriptions, orders, items, session, users, books, loans, tokens, now>>

Teardown ==
    /\ ~Idle
    /\ session' = EmptyFn
    /\ request' = NoRequest
    /\ response' = NoResponse
    /\ UNCHANGED <<descriptions, orders, items, users, books, loans, tokens, now>>

----------------------------------------------------------------------------
(* Orders blueprint *)

(* order.items: the items whose order_id is this order. *)
OrderItems(tbl, order_id) == {i \in DOMAIN tbl : tbl[i].order_id = order_id}

(* The for loop of checkout over the loaded list, from position k on, with  *)
(* the assignments made so far: returns the status and the assignments.     *)
RECURSIVE CheckoutLoop(_, _, _, _)
CheckoutLoop_toggle(tbl, loaded, k, sess) ==
    IF k > Len(loaded) THEN [status |-> 200, session |-> sess]
    ELSE CheckoutLoop(tbl, loaded, k + 1,
                      [i \in DOMAIN sess \cup {loaded[k]} |->
                          IF i = loaded[k] THEN ~tbl[i].is_sold ELSE sess[i]])

CheckoutLoop_skipsold(tbl, loaded, k, sess) ==
    IF k > Len(loaded) THEN [status |-> 200, session |-> sess]
    ELSE IF tbl[loaded[k]].is_sold THEN CheckoutLoop(tbl, loaded, k + 1, sess)
    ELSE CheckoutLoop(tbl, loaded, k + 1,
                      [i \in DOMAIN sess \cup {loaded[k]} |->
                          IF i = loaded[k] THEN TRUE ELSE sess[i]])

CheckoutLoop_noabort(tbl, loaded, k, sess) ==
    IF k > Len(loaded) THEN [status |-> 200, session |-> sess]
    ELSE CheckoutLoop(tbl, loaded, k + 1,
                      [i \in DOMAIN sess \cup {loaded[k]} |->
                          IF i = loaded[k] THEN TRUE ELSE sess[i]])

CheckoutLoop(tbl, loaded, k, sess) ==
    IF k > Len(loaded) THEN [status |-> 200, session |-> sess]
    ELSE IF tbl[loaded[k]].is_sold THEN [status |-> 400, session |-> sess]
    ELSE CheckoutLoop(tbl, loaded, k + 1,
                      [i \in DOMAIN sess \cup {loaded[k]} |->
                          IF i = loaded[k] THEN TRUE ELSE sess[i]])

(* POST /orders. The commit flushes whatever the session holds. *)
create_order(body_valid) ==
    /\ Idle
    /\ Cardinality(orders) < MaxOrders
    /\ request' = [route |-> "create_order", body_valid |-> body_valid]
    /\ IF ~body_valid
         THEN /\ response' = Response(400, 0)
              /\ UNCHANGED orders
              /\ UNCHANGED <<items, session>>
         ELSE /\ orders' = orders \cup {NextId(orders)}
              /\ items' = CommitSession(items, session)
              /\ session' = EmptyFn
              /\ response' = Response(201, 1)
    /\ UNCHANGED <<descriptions, users, books, loans, tokens, now>>

(* The URL rule of add_item passes the view arguments order_id and item_id; *)
(* the view function's parameters are order_id and description_id.          *)
add_item_view_args == {"order_id", "item_id"}
add_item_params == {"order_id", "description_id"}

(* Flask calls the view with the rule's arguments as keywords: a keyword the *)
(* function does not take is a TypeError.                                   *)
ViewArgsBind(view_args, params) == view_args = params

(* GET /orders/<order_id>/add_item/<item_id> *)
add_item(order_id, item_id) ==
    /\ Idle
    /\ request' = [route |-> "add_item", order_id |-> order_id, item_id |-> item_id]
    /\ IF ~ViewArgsBind(add_item_view_args, add_item_params)
         THEN /\ response' = Response(500, 0)
              /\ UNCHANGED items
         ELSE IF order_id \notin orders \/ item_id \notin DOMAIN items
         THEN /\ response' = Response(400, 0)
              /\ UNCHANGED items
         ELSE IF items[item_id].order_id # NULL
         THEN /\ response' = Response(400, 0)
              /\ UNCHANGED items
         ELSE /\ items' = [items EXCEPT ![item_id].order_id = order_id]
              /\ response' = Response(200, 1)
    /\ UNCHANGED <<descriptions, orders, session, users, books, loans, tokens, now>>

(* GET /orders/checkout/<order_id>; loaded is the list order.items loads. *)
checkout(order_id, loaded) ==
    /\ Idle
    /\ IF order_id \notin orders
         THEN /\ loaded = <<>>
              /\ request' = [route |-> "checkout", order_id |-> order_id, loaded |-> loaded]
              /\ response' = Response(500, 0)
              /\ UNCHANGED <<items, session>>
         ELSE /\ loaded \in LoadOrders(OrderItems(items, order_id))
              /\ request' = [route |-> "checkout", order_id |-> order_id, loaded |-> loaded]
              /\ LET r == CheckoutLoop(items, loaded, 1, session)
                 IN IF r.status = 200
                      THEN /\ items' = CommitSession(items, r.session)
                           /\ session' = EmptyFn
                           /\ response' = Response(200, 1)
                      ELSE /\ session' = r.session
                           /\ response' = Response(r.status, 0)
                           /\ UNCHANGED items
    /\ UNCHANGED <<descriptions, orders, users, books, loans, tokens, now>>

----------------------------------------------------------------------------
(* Items blueprint *)

(* ItemSchema (include_fk) requires description_id in the body, and the    *)
(* view passes description_id to Items() both from the URL and from the    *)
(* loaded body: a body that validates raises TypeError.                    *)
create_item(description_id, body_has_description_id) ==
    /\ Idle
    /\ request' = [route |-> "create_item", description_id |-> description_id,
                   body_has_description_id |-> body_has_description_id]
    /\ response' = IF body_has_description_id THEN Response(500, 0) ELSE Response(400, 0)
    /\ UNCHANGED <<descriptions, orders, items, session, users, books, loans, tokens, now>>

(* POST /items/description: ItemDescriptionSchema requires name, price and  *)
(* description.                                                             *)
create_item_description(body_valid) ==
    /\ Idle
    /\ Cardinality(descriptions) < MaxDescriptions
    /\ request' = [route |-> "create_item_description", body_valid |-> body_valid]
    /\ IF ~body_valid
         THEN /\ response' = Response(400, 0)
              /\ UNCHANGED descriptions
         ELSE /\ descriptions' = descriptions \cup {NextId(descriptions)}
              /\ response' = Response(201, 1)
    /\ UNCHANGED <<orders, items, session, users, books, loans, tokens, now>>

----------------------------------------------------------------------------
(* Orders and items. No request stores an item or attaches one to an order  *)
(* (create_item and add_item fail on every input), so the item rows are the *)
(* ones the database file holds when the application starts: any rows the   *)
(* schema allows, each order_id NULL or the id of a stored order.           *)

ItemRows(os) == [order_id : os \cup {NULL}, is_sold : BOOLEAN, description_id : DescriptionIds]

ItemTables(os) == UNION {[ids -> ItemRows(os)] : ids \in SUBSET ItemIds}

InitOrders ==
    /\ orders \in SUBSET OrderIds
    /\ items \in ItemTables(orders)
    /\ descriptions = DescriptionIds
    /\ session = EmptyFn
    /\ users = EmptyFn
    /\ books = EmptyFn
    /\ loans = EmptyFn
    /\ tokens = {}
    /\ now = 0
    /\ request = NoRequest
    /\ response = NoResponse

NextOrders ==
    \/ \E v \in BOOLEAN : create_order(v)
    \/ \E o \in OrderIds, i \in ItemIds : add_item(o, i)
    \/ \E o \in OrderIds, l \in UNION {LoadOrders(S) : S \in SUBSET ItemIds} : checkout(o, l)
    \/ \E d \in DescriptionIds, b \in BOOLEAN : create_item(d, b)
    \/ Teardown

SpecOrders == InitOrders /\ [][NextOrders]_vars

----------------------------------------------------------------------------
(* Books blueprint *)

(* POST /books: BookSchema requires title, author and isbn; isbn is unique, *)
(* and the IntegrityError of a duplicate isbn is not caught.                *)
create_book(body_valid, title, isbn) ==
    /\ Idle
    /\ Cardinality(DOMAIN books) < MaxBooks
    /\ request' = [route |-> "create_book", body_valid |-> body_valid,
                   title |-> title, isbn |-> isbn]
    /\ IF ~body_valid
         THEN /\ response' = Response(400, 0)
              /\ UNCHANGED books
         ELSE IF \E b \in DOMAIN books : books[b].isbn = isbn
         THEN /\ response' = Response(500, 0)
              /\ UNCHANGED books
         ELSE /\ books' = [b \in DOMAIN books \cup {NextId(DOMAIN books)} |->
                              IF b \in DOMAIN books THEN books[b]
                              ELSE [title |-> title, isbn |-> isbn]]
              /\ response' = Response(201, 1)
    /\ UNCHANGED <<descriptions, orders, items, session, users, loans, tokens, now>>

(* The rows of a table in the order a query without ORDER BY reads them:    *)
(* by id.                                                                   *)
RECURSIVE Ascending(_)
Ascending(S) ==
    IF S = {} THEN <<>>
    ELSE LET m == CHOOSE x \in S : \A y \in S : x <= y
         IN <<m>> \o Ascending(S \ {m})

(* A query argument: absent (request.args.get gives None), a text int()     *)
(* refuses, or a decimal number.                                            *)
NoArg == [given |-> FALSE, numeric |-> FALSE, value |-> 0]
TextArg == [given |-> TRUE, numeric |-> FALSE, value |-> 0]
IntArg(n) == [given |-> TRUE, numeric |-> TRUE, value |-> n]

(* int(request.args.get(name)) raises TypeError or ValueError *)
IntRaises(arg) == ~arg.given \/ ~arg.numeric

(* db.paginate(query, page=page, per_page=per_page): the items of the page, *)
(* and whether it aborts with 404 (error_out): page or per_page below 1, or *)
(* no items on a page other than the first.                                 *)
PageItems(rows, page, per_page) ==
    LET first == (page - 1) * per_page + 1
        last == IF page * per_page < Len(rows) THEN page * per_page ELSE Len(rows)
    IN IF first > last THEN <<>> ELSE SubSeq(rows, first, last)

PaginateAborts(rows, page, per_page) ==
    \/ page < 1
    \/ per_page < 1
    \/ (PageItems(rows, page, per_page) = <<>> /\ page # 1)

(* GET /books: the page when the arguments parse and paginate does not      *)
(* abort; the bare except turns every failure into the list of all books.   *)
(* The body is the list of records and nothing else.                        *)
get_books(page, per_page) ==
    /\ Idle
    /\ request' = [route |-> "get_books", page |-> page, per_page |-> per_page]
    /\ LET rows == Ascending(DOMAIN books)
       IN IF \/ IntRaises(page)
             \/ IntRaises(per_page)
             \/ PaginateAborts(rows, page.value, per_page.value)
            THEN response' = [status |-> 200, commits |-> 0, books |-> rows]
            ELSE response' = [status |-> 200, commits |-> 0,
                              books |-> PageItems(rows, page.value, per_page.value)]
    /\ UNCHANGED <<descriptions, orders, items, session, users, books, loans, tokens, now>>

(* PUT /books/<book_id>: 404 for a missing book, then the BookSchema load;  *)
(* an isbn another book holds is an uncaught IntegrityError.                *)
update_book(book_id, body_valid, title, isbn) ==
    /\ Idle
    /\ request' = [route |-> "update_book", book_id |-> book_id,
                   body_valid |-> body_valid, title |-> title, isbn |-> isbn]
    /\ IF book_id \notin DOMAIN books
         THEN /\ response' = Response(404, 0)
              /\ UNCHANGED books
         ELSE IF ~body_valid
         THEN /\ response' = Response(400, 0)
              /\ UNCHANGED books
         ELSE IF \E b \in DOMAIN books : b # book_id /\ books[b].isbn = isbn
         THEN /\ response' = Response(500, 0)
              /\ UNCHANGED books
         ELSE /\ books' = [books EXCEPT ![book_id] = [title |-> title, isbn |-> isbn]]
              /\ response' = Response(200, 1)
    /\ UNCHANGED <<descriptions, orders, items, session, users, loans, tokens, now>>

(* Loans.books and Books.loans: the two sides of the loan_book table, each  *)
(* joined to the rows of the other table.                                   *)
LoanBooks(lns, bks, loan_id) == {b \in DOMAIN bks : b \in Range(lns[loan_id].books)}

BookLoans(lns, book_id) == {l \in DOMAIN lns : book_id \in Range(lns[l].books)}

(* DELETE /books/<book_id>: db.session.delete(None) raises for a missing    *)
(* book; the delete of a book takes the loan_book rows of book.loans with   *)
(* it.                                                                      *)
delete_book_keeps_rows(book_id) ==
    /\ Idle
    /\ request' = [route |-> "delete_book", book_id |-> book_id]
    /\ IF book_id \notin DOMAIN books
         THEN /\ response' = Response(500, 0)
              /\ UNCHANGED <<books, loans>>
         ELSE /\ books' = [b \in DOMAIN books \ {book_id} |-> books[b]]
              /\ UNCHANGED loans
              /\ response' = Response(200, 1)
    /\ UNCHANGED <<descriptions, orders, items, session, users, tokens, now>>

delete_book(book_id) ==
    /\ Idle
    /\ request' = [route |-> "delete_book", book_id |-> book_id]
    /\ IF book_id \notin DOMAIN books
         THEN /\ response' = Response(500, 0)
              /\ UNCHANGED <<books, loans>>
         ELSE /\ books' = [b \in DOMAIN books \ {book_id} |-> books[b]]
              /\ loans' = [l \in DOMAIN loans |->
                              IF l \in BookLoans(loans, book_id)
                                THEN [loans[l] EXCEPT !.books =
                                         SelectSeq(@, LAMBDA b : b # book_id)]
                                ELSE loans[l]]
              /\ response' = Response(200, 1)
    /\ UNCHANGED <<descriptions, orders, items, session, users, tokens, now>>

(* lower() of SQLite: the ASCII letters. *)
Lower(c) ==
    CASE c = "D" -> "d" [] c = "E" -> "e" [] c = "U" -> "u" [] c = "N" -> "n"
      [] c = "M" -> "m" [] c = "A" -> "a" [] OTHER -> c

LowerAll(text) == [k \in 1..Len(text) |-> Lower(text[k])]

(* text LIKE pattern: % stands for any run of characters, _ for any one     *)
(* character, every other character for itself.                             *)
RECURSIVE Like(_, _)
Like(text, pattern) ==
    IF pattern = <<>> THEN text = <<>>
    ELSE IF Head(pattern) = "%"
    THEN Like(text, Tail(pattern)) \/ (text # <<>> /\ Like(Tail(text), pattern))
    ELSE IF Head(pattern) = "_"
    THEN text # <<>> /\ Like(Tail(text), Tail(pattern))
    ELSE text # <<>> /\ Head(text) = Head(pattern) /\ Like(Tail(text), Tail(pattern))

(* column.ilike(pattern): lower(column) LIKE lower(pattern) *)
ilike(text, pattern) == Like(LowerAll(text), LowerAll(pattern))

(* request.args.get('title'): the text of the argument, or None *)
NoTitle == [given |-> FALSE, text |-> <<>>]
TitleArg(text) == [given |-> TRUE, text |-> text]

(* f"%{title}%"; None formats as the word None *)
SearchPattern(title) ==
    <<"%">> \o (IF title.given THEN title.text ELSE <<"N", "o", "n", "e">>) \o <<"%">>

(* GET /books/search: the books whose title is ilike the pattern. *)
search_books(title) ==
    /\ Idle
    /\ request' = [route |-> "search_books", title |-> title]
    /\ response' = [status |-> 200, commits |-> 0,
                    books |-> {b \in DOMAIN books :
                                  ilike(books[b].title, SearchPattern(title))}]
    /\ UNCHANGED <<orders, items, descriptions, session, users, books, loans, tokens, now>>

----------------------------------------------------------------------------
(* Loans blueprint *)

(* POST /loans: LoanSchema (include_fk) requires the dates and user_id; the *)
(* user row is not looked up. The view returns no status, hence 200.        *)
create_loan(body_valid, user_id) ==
    /\ Idle
    /\ Cardinality(DOMAIN loans) < MaxLoans
    /\ request' = [route |-> "create_loan", body_valid |-> body_valid, user_id |-> user_id]
    /\ IF ~body_valid
         THEN /\ response' = Response(400, 0)
              /\ UNCHANGED loans
         ELSE /\ loans' = [l \in DOMAIN loans \cup {NextId(DOMAIN loans)} |->
                              IF l \in DOMAIN loans THEN loans[l]
                              ELSE [user_id |-> user_id, books |-> <<>>]]
              /\ response' = Response(200, 1)
    /\ UNCHANGED <<descriptions, orders, items, session, users, books, tokens, now>>

(* book not in loan.books *)
add_book_guard_always(loan_books, book_id) == TRUE

add_book_guard(loan_books, book_id) == book_id \notin Range(loan_books)

(* book in loan.books *)
remove_book_guard(loan_books, book_id) == book_id \in Range(loan_books)

(* list.remove: drop the first occurrence of the element. *)
RECURSIVE ListRemove(_, _)
ListRemove_pop(list, x) == SubSeq(list, 1, Len(list) - 1)

ListRemove(list, x) ==
    IF list = <<>> THEN <<>>
    ELSE IF Head(list) = x THEN Tail(list)
    ELSE <<Head(list)>> \o ListRemove(Tail(list), x)

(* loan.books.append(book); db.session.commit() *)
AppendBook(tbl, loan_id, book_id) ==
    [tbl EXCEPT ![loan_id].books = Append(@, book_id)]

(* loan.books.remove(book); db.session.commit() *)
RemoveBook(tbl, loan_id, book_id) ==
    [tbl EXCEPT ![loan_id].books = ListRemove(@, book_id)]

BooksResponse(status, commits, loan_books) ==
    [status |-> status, commits |-> commits, books |-> loan_books]

(* PUT /loans/<loan_id>/add-book/<book_id>. A missing loan is None.books    *)
(* (AttributeError); a missing book is appended as None, which the flush of *)
(* the commit refuses (FlushError).                                         *)
add_book(loan_id, book_id) ==
    /\ Idle
    /\ request' = [route |-> "add_book", loan_id |-> loan_id, book_id |-> book_id]
    /\ IF loan_id \notin DOMAIN loans
         THEN /\ response' = Response(500, 0)
              /\ UNCHANGED loans
         ELSE IF book_id \notin DOMAIN books
         THEN /\ response' = Response(500, 0)
              /\ UNCHANGED loans
         ELSE IF add_book_guard(loans[loan_id].books, book_id)
         THEN /\ loans' = AppendBook(loans, loan_id, book_id)
              /\ response' = BooksResponse(200, 1, loans'[loan_id].books)
         ELSE /\ response' = Response(400, 0)
              /\ UNCHANGED loans
    /\ UNCHANGED <<descriptions, orders, items, session, users, books, tokens, now>>

(* PUT /loans/<loan_id>/remove-book/<book_id>. A missing loan is None.books *)
(* (AttributeError); a missing book is None, which is in no loan's books.   *)
remove_book(loan_id, book_id) ==
    /\ Idle
    /\ request' = [route |-> "remove_book", loan_id |-> loan_id, book_id |-> book_id]
    /\ IF loan_id \notin DOMAIN loans
         THEN /\ response' = Response(500, 0)
              /\ UNCHANGED loans
         ELSE IF book_id \in DOMAIN books /\ remove_book_guard(loans[loan_id].books, book_id)
         THEN /\ loans' = RemoveBook(loans, loan_id, book_id)
              /\ response' = BooksResponse(200, 1, loans'[loan_id].books)
         ELSE /\ response' = Response(400, 0)
              /\ UNCHANGED loans
    /\ UNCHANGED <<descriptions, orders, items, session, users, books, tokens, now>>

----------------------------------------------------------------------------
(* Loans and books, from the empty tables db.create_all() makes. *)

BookIds == 1..MaxBooks
LoanIds == 1..MaxLoans
(* A title is its sequence of characters. *)
Titles == {<<"D", "u", "n", "e">>}
Isbns == {"isbn-1", "isbn-2"}

(* The page and per_page arguments of GET /books. *)
PageArgs == {NoArg, TextArg} \cup {IntArg(n) : n \in 0..(MaxBooks + 1)}

InitLoans ==
    /\ orders = {}
    /\ items = EmptyFn
    /\ descriptions = {}
    /\ session = EmptyFn
    /\ users = EmptyFn
    /\ books = EmptyFn
    /\ loans = EmptyFn
    /\ tokens = {}
    /\ now = 0
    /\ request = NoRequest
    /\ response = NoResponse

NextLoans ==
    \/ \E v \in BOOLEAN, t \in Titles, n \in Isbns : create_book(v, t, n)
    \/ \E v \in BOOLEAN : create_loan(v, 1)
    \/ \E l \in LoanIds, b \in BookIds : add_book(l, b)
    \/ \E l \in LoanIds, b \in BookIds : remove_book(l, b)
    \/ \E b \in BookIds, v \in BOOLEAN, t \in Titles, n \in Isbns : update_book(b, v, t, n)
    \/ \E b \in BookIds : delete_book(b)
    \/ \E p, n \in PageArgs : get_books(p, n)
    \/ Teardown

SpecLoans == InitLoans /\ [][NextLoans]_vars

----------------------------------------------------------------------------
(* The book catalogue and its search, from the empty table. *)

SearchTitles == {<<"D", "u", "n", "e">>, <<"E", "m", "m", "a">>, <<"N", "o", "n", "e">>}

(* The title arguments of GET /books/search. *)
SearchArgs ==
    {NoTitle} \cup {TitleArg(q) : q \in {<<>>, <<"d", "U">>, <<"m", "m">>, <<"e">>,
                                         <<"x">>, <<"_">>, <<"%">>, <<"u", "_", "e">>}}

NextSearch ==
    \/ \E t \in SearchTitles, n \in Isbns : create_book(TRUE, t, n)
    \/ \E b \in BookIds : delete_book(b)
    \/ \E q \in SearchArgs : search_books(q)
    \/ Teardown

SpecSearch == InitLoans /\ [][NextSearch]_vars

----------------------------------------------------------------------------
(* app/util/auth.py *)

SECRET_KEY == "super secret secrets"

(* timedelta(days=0, hours=1), in seconds *)
TokenLifetimeSeconds == 3600

HourTicks == TokenLifetimeSeconds * TicksPerSecond

(* A JWT time claim is a whole number of seconds: jose encodes a datetime,  *)
(* and reads the clock when it validates exp, with the fraction dropped.    *)
Seconds(t) == t \div TicksPerSecond

(* str(user_id) *)
Str(n) ==
    CASE n = 0 -> "0" [] n = 1 -> "1" [] n = 2 -> "2" [] n = 3 -> "3" [] n = 4 -> "4"
      [] n = 5 -> "5" [] n = 6 -> "6" [] n = 7 -> "7" [] n = 8 -> "8" [] n = 9 -> "9"

(* The integer an INTEGER primary-key lookup compares a decimal string as; *)
(* NULL when the string is not one of a row id.                            *)
IntOf(str) == IF \E n \in 0..9 : Str(n) = str THEN CHOOSE n \in 0..9 : Str(n) = str ELSE NULL

(* 'exp': datetime.now(timezone.utc) + timedelta(days=0, hours=1) *)
TokenExp_minute(t) == Seconds(t) + 60

TokenExp(t) == Seconds(t) + TokenLifetimeSeconds

(* encode_token: the HS256 token over exp, iat, sub and role. *)
encode_token(user_id, role, t) ==
    [format |-> "jwt", key |-> SECRET_KEY, exp |-> TokenExp(t), iat |-> Seconds(t),
     sub |-> Str(user_id), role |-> role]

(* jwt.decode(token, SECRET_KEY, algorithms=['HS256']) and the two except   *)
(* clauses: the signature is verified before the claims; the result is the  *)
(* status of the clause that catches, or 0 when decode returns the claims.  *)
DecodeStatus_swapped(token, t) ==
    IF token.format # "jwt" THEN 401
    ELSE IF token.key # SECRET_KEY THEN 401
    ELSE IF token.exp < Seconds(t) THEN 401
    ELSE 0

DecodeStatus_noexp(token, t) ==
    IF token.format # "jwt" THEN 401
    ELSE IF token.key # SECRET_KEY THEN 401
    ELSE 0

DecodeStatus(token, t) ==
    IF token.format # "jwt" THEN 401
    ELSE IF token.key # SECRET_KEY THEN 401
    ELSE IF token.exp < Seconds(t) THEN 403
    ELSE 0

(* The Authorization header: present or not, and its value split on white space. *)
NoHeader == [present |-> FALSE, words |-> <<>>]
Header(words) == [present |-> TRUE, words |-> words]

(* token_required's decoration, up to the call of the wrapped view: the     *)
(* status it returns (0 when it goes on to the view) and the id it puts in  *)
(* request.logged_in_user_id. split()[1] of a value of fewer than two words *)
(* is an IndexError.                                                        *)
token_required_adminonly(header, t) ==
    IF ~header.present THEN [status |-> 401, logged_in_user_id |-> ""]
    ELSE IF Len(header.words) < 2 THEN [status |-> 500, logged_in_user_id |-> ""]
    ELSE LET token == header.words[2]
             status == DecodeStatus(token, t)
         IN IF status # 0 THEN [status |-> status, logged_in_user_id |-> ""]
            ELSE IF token.role # "Admin" THEN [status |-> 403, logged_in_user_id |-> ""]
            ELSE [status |-> 0, logged_in_user_id |-> token.sub]

token_required(header, t) ==
    IF ~header.present THEN [status |-> 401, logged_in_user_id |-> ""]
    ELSE IF Len(header.words) < 2 THEN [status |-> 500, logged_in_user_id |-> ""]
    ELSE LET token == header.words[2]
             status == DecodeStatus(token, t)
         IN IF status # 0 THEN [status |-> status, logged_in_user_id |-> ""]
            ELSE [status |-> 0, logged_in_user_id |-> token.sub]

(* The request of a token-protected route after the decorator has run. *)
ProtectedRequest(route, header, auth) ==
    [route |-> route, header |-> header,
     logged_in_user_id |-> auth.logged_in_user_id, ran |-> auth.status = 0]

----------------------------------------------------------------------------
(* User blueprint *)

DefaultRole == "User"

(* The body leaves role out. *)
NoRole == ""

(* generate_password_hash / check_password_hash *)
(* The hash is a string that names its method and is never the password;   *)
(* the salt is left out, so equal passwords have equal hashes.              *)
generate_password_hash_plain(password) == password

generate_password_hash(password) == "scrypt$" \o password

check_password_hash_any(pwhash, password) == TRUE

check_password_hash(pwhash, password) == pwhash = generate_password_hash(password)

(* Users.email is unique: the flush of a row for user u (NULL for a new row) *)
(* with an email another row holds raises IntegrityError.                   *)
EmailTaken_unchecked(tbl, u, email) == FALSE

EmailTaken(tbl, u, email) == \E v \in DOMAIN tbl : v # u /\ tbl[v].email = email

(* db.session.query(Users).where(Users.email==email).first(), NULL for None *)
UserByEmail(tbl, email) ==
    IF \E u \in DOMAIN tbl : tbl[u].email = email
      THEN CHOOSE u \in DOMAIN tbl : tbl[u].email = email
      ELSE NULL

(* POST /users/login. A view that falls off its end returns None, which     *)
(* Flask refuses (TypeError).                                               *)
login(body_valid, email, password) ==
    /\ Idle
    /\ request' = [route |-> "login", body_valid |-> body_valid,
                   email |-> email, password |-> password]
    /\ LET u == UserByEmail(users, email)
       IN IF ~body_valid
            THEN /\ response' = Response(400, 0)
                 /\ UNCHANGED tokens
            ELSE IF u # NULL /\ check_password_hash(users[u].password, password)
            THEN LET token == encode_token(u, users[u].role, now)
                     issued == [token |-> token, at |-> now, user_id |-> u]
                 IN /\ issued \in tokens \/ Cardinality(tokens) < MaxTokens
                    /\ tokens' = tokens \cup {issued}
                    /\ response' = [status |-> 200, commits |-> 0, token |-> token]
            ELSE /\ response' = Response(500, 0)
                 /\ UNCHANGED tokens
    /\ UNCHANGED <<descriptions, orders, items, session, users, books, loans, now>>

(* POST /users: UserSchema requires first_name, last_name, email, phone and *)
(* password; role defaults to "User"; email is unique, and the              *)
(* IntegrityError of a duplicate email is not caught.                       *)
create_user(body_valid, email, password, role) ==
    /\ Idle
    /\ Cardinality(DOMAIN users) < MaxUsers
    /\ request' = [route |-> "create_user", body_valid |-> body_valid,
                   email |-> email, password |-> password, role |-> role]
    /\ IF ~body_valid
         THEN /\ response' = Response(400, 0)
              /\ UNCHANGED users
         ELSE IF EmailTaken(users, NULL, email)
         THEN /\ response' = Response(500, 0)
              /\ UNCHANGED users
         ELSE /\ users' = [u \in DOMAIN users \cup {NextId(DOMAIN users)} |->
                              IF u \in DOMAIN users THEN users[u]
                              ELSE [email |-> email,
                                    password |-> generate_password_hash(password),
                                    role |-> IF role = NoRole THEN DefaultRole ELSE role]]
              /\ response' = Response(201, 1)
    /\ UNCHANGED <<descriptions, orders, items, session, books, loans, tokens, now>>

(* db.session.get(Users, request.logged_in_user_id), NULL for None *)
UserById(tbl, logged_in_user_id) ==
    IF IntOf(logged_in_user_id) \in DOMAIN tbl THEN IntOf(logged_in_user_id) ELSE NULL

(* What a token-protected view answers and what it leaves in the users      *)
(* table, as a function of the tables, the header, the clock and the body.  *)
Outcome(resp, tbl) == [response |-> resp, users |-> tbl]

(* GET /users/profile; user_schema.jsonify(None) is the empty object. *)
read_user_outcome(tbl, header, t) ==
    LET auth == token_required(header, t)
    IN IF auth.status # 0
         THEN Outcome(Response(auth.status, 0), tbl)
         ELSE Outcome([status |-> 200, commits |-> 0,
                       user_id |-> UserById(tbl, auth.logged_in_user_id)], tbl)

read_user(header) ==
    /\ Idle
    /\ request' = ProtectedRequest("read_user", header, token_required(header, now))
    /\ response' = read_user_outcome(users, header, now).response
    /\ UNCHANGED <<descriptions, orders, items, session, users, books, loans, tokens, now>>

(* DELETE /users. db.session.delete(None) raises; the flush of a deleted    *)
(* user sets the user_id of the user's loans to NULL, which the NOT NULL    *)
(* column refuses (IntegrityError).                                         *)
delete_user_outcome(tbl, lns, header, t) ==
    LET auth == token_required(header, t)
        u == UserById(tbl, auth.logged_in_user_id)
    IN IF auth.status # 0 THEN Outcome(Response(auth.status, 0), tbl)
       ELSE IF u = NULL THEN Outcome(Response(500, 0), tbl)
       ELSE IF \E l \in DOMAIN lns : lns[l].user_id = u
       THEN Outcome(Response(500, 0), tbl)
       ELSE Outcome(Response(200, 1), [v \in DOMAIN tbl \ {u} |-> tbl[v]])

delete_user(header) ==
    /\ Idle
    /\ request' = ProtectedRequest("delete_user", header, token_required(header, now))
    /\ LET outcome == delete_user_outcome(users, loans, header, now)
       IN /\ response' = outcome.response
          /\ users' = outcome.users
    /\ UNCHANGED <<descriptions, orders, items, session, books, loans, tokens, now>>

(* The fields UserSchema requires: the columns of Users that are not        *)
(* nullable and have no default.                                            *)
RequiredUserFields == {"first_name", "last_name", "email", "phone", "password"}

(* user_schema.load of a body with the fields of supplied, each well typed. *)
UserBodyValid_partial(supplied) == supplied # {}

UserBodyValid(supplied) == RequiredUserFields \subseteq supplied

(* PUT /users: the whole UserSchema is required again; every loaded key is  *)
(* set on the user; a duplicate email is an uncaught IntegrityError.        *)
update_user_outcome(tbl, header, t, supplied, email, password, role) ==
    LET auth == token_required(header, t)
        u == UserById(tbl, auth.logged_in_user_id)
    IN IF auth.status # 0 THEN Outcome(Response(auth.status, 0), tbl)
       ELSE IF u = NULL THEN Outcome(Response(404, 0), tbl)
       ELSE IF ~UserBodyValid(supplied) THEN Outcome(Response(400, 0), tbl)
       ELSE IF EmailTaken(tbl, u, email) THEN Outcome(Response(500, 0), tbl)
       ELSE Outcome(Response(200, 1),
                    [tbl EXCEPT ![u] =
                        [email |-> email,
                         password |-> generate_password_hash(password),
                         role |-> IF role = NoRole THEN @.role ELSE role]])

update_user(header, supplied, email, password, role) ==
    /\ Idle
    /\ LET auth == token_required(header, now)
           outcome == update_user_outcome(users, header, now, supplied,
                                          email, password, role)
       IN /\ request' = [route |-> "update_user", header |-> header,
                         logged_in_user_id |-> auth.logged_in_user_id,
                         ran |-> auth.status = 0,
                         supplied |-> supplied,
                         body_valid |-> UserBodyValid(supplied), email |-> email,
                         password |-> password, role |-> role]
          /\ response' = outcome.response
          /\ users' = outcome.users
    /\ UNCHANGED <<descriptions, orders, items, session, books, loans, tokens, now>>

----------------------------------------------------------------------------
(* The clock *)

(* The instants at which the model lets a request arrive: the first ticks,  *)
(* and the ticks of the second that starts one token lifetime after 0.      *)
ClockInstants ==
    (0..(ClockWindow - 1)) \cup {HourTicks + d : d \in 0..TicksPerSecond}

AdvanceClock(t) ==
    /\ Idle
    /\ t > now
    /\ now' = t
    /\ UNCHANGED <<descriptions, orders, items, session, users, books, loans, tokens, request, response>>

----------------------------------------------------------------------------
(* Users and tokens, from the empty tables db.create_all() makes. *)

Emails == {"ann@lib.org", "bob@lib.org"}
Passwords == {"pw"}
Guesses == {"pw", "guess"}

(* Tokens nobody issued: not a JWT at all, or signed with another key. *)
Garbage == [format |-> "garbage", key |-> "", exp |-> 0, iat |-> 0, sub |-> "", role |-> ""]
Forged(token) == [token EXCEPT !.key = "another key"]
ForgedTokens == {Forged(encode_token(1, DefaultRole, t)) : t \in {0, 2 * HourTicks}}

(* The headers a client sends: none, the scheme word alone, or the scheme   *)
(* word and a token.                                                        *)
Headers ==
    {NoHeader, Header(<<"Bearer">>)}
        \cup {Header(<<"Bearer", token>>) :
                 token \in {Garbage} \cup ForgedTokens \cup {e.token : e \in tokens}}

(* The bodies of PUT /users: every required field, or first_name alone. *)
UserBodies == {RequiredUserFields, {"first_name"}}

InitAuth ==
    /\ orders = {}
    /\ items = EmptyFn
    /\ descriptions = {}
    /\ session = EmptyFn
    /\ users = EmptyFn
    /\ books = EmptyFn
    /\ loans = EmptyFn
    /\ tokens = {}
    /\ now = 0
    /\ request = NoRequest
    /\ response = NoResponse

NextAuth ==
    \/ \E v \in BOOLEAN, e \in Emails, p \in Passwords, r \in {NoRole, "Admin"} :
          create_user(v, e, p, r)
    \/ \E v \in BOOLEAN, e \in Emails, p \in Guesses : login(v, e, p)
    \/ \E h \in Headers : read_user(h)
    \/ \E h \in Headers : delete_user(h)
    \/ \E h \in Headers, f \in UserBodies, e \in Emails, p \in Passwords :
          update_user(h, f, e, p, NoRole)
    \/ \E t \in ClockInstants : AdvanceClock(t)
    \/ Teardown

SpecAuth == InitAuth /\ [][NextAuth]_vars

----------------------------------------------------------------------------
(* The create, update and delete routes of all blueprints together, from    *)
(* the empty tables; the clock stands still.                                *)

UserIds == 1..MaxUsers

(* The headers of this specification: none, the scheme word alone, or an    *)
(* issued token.                                                            *)
CrudHeaders ==
    {NoHeader, Header(<<"Bearer">>)}
        \cup {Header(<<"Bearer", e.token>>) : e \in tokens}

InitCrud ==
    /\ orders = {}
    /\ items = EmptyFn
    /\ descriptions = {}
    /\ session = EmptyFn
    /\ users = EmptyFn
    /\ books = EmptyFn
    /\ loans = EmptyFn
    /\ tokens = {}
    /\ now = 0
    /\ request = NoRequest
    /\ response = NoResponse

NextCrud ==
    \/ \E v \in BOOLEAN, e \in Emails, p \in Passwords : create_user(v, e, p, NoRole)
    \/ \E e \in Emails, p \in Passwords : login(TRUE, e, p)
    \/ \E h \in CrudHeaders, f \in UserBodies, e \in Emails, p \in Passwords :
          update_user(h, f, e, p, NoRole)
    \/ \E h \in CrudHeaders : delete_user(h)
    \/ \E v \in BOOLEAN, t \in Titles, n \in Isbns : create_book(v, t, n)
    \/ \E b \in BookIds, v \in BOOLEAN, t \in Titles, n \in Isbns : update_book(b, v, t, n)
    \/ \E v \in BOOLEAN, u \in UserIds : create_loan(v, u)
    \/ \E v \in BOOLEAN : create_order(v)
    \/ \E d \in DescriptionIds, b \in BOOLEAN : create_item(d, b)
    \/ \E v \in BOOLEAN : create_item_description(v)
    \/ Teardown

SpecCrud == InitCrud /\ [][NextCrud]_vars

----------------------------------------------------------------------------
(* Users and the roles a body can carry: UserSchema takes role as any       *)
(* string of the column's length.                                           *)

RoleInputs == {NoRole, "User", "Admin", "Root"}

NextRoles ==
    \/ \E v \in BOOLEAN, e \in Emails, p \in Passwords, r \in RoleInputs :
          create_user(v, e, p, r)
    \/ \E e \in Emails, p \in Passwords : login(TRUE, e, p)
    \/ \E h \in CrudHeaders, f \in UserBodies, e \in Emails, p \in Passwords, r \in RoleInputs :
          update_user(h, f, e, p, r)
    \/ Teardown

SpecRoles == InitAuth /\ [][NextRoles]_vars

----------------------------------------------------------------------------
(* Concurrent requests. app.run() serves each request on a thread of its    *)
(* own, with its own session. In this specification request, response and   *)
(* session hold one value per thread. A view reads its rows when it loads   *)
(* them (SQLite holds no lock between a SELECT and the commit) and works on *)
(* the loaded objects until it commits.                                     *)

Workers == {"w1", "w2"}

WorkerIdle(w) == request[w] = NoRequest

(* checkout up to the load of order.items: the rows as they are now. *)
checkout_load(w, order_id, loaded) ==
    /\ WorkerIdle(w)
    /\ order_id \in orders
    /\ loaded \in LoadOrders(OrderItems(items, order_id))
    /\ request' = [request EXCEPT ![w] =
                      [route |-> "checkout", order_id |-> order_id, loaded |-> loaded,
                       read |-> [i \in OrderItems(items, order_id) |-> items[i]]]]
    /\ UNCHANGED <<response, session>>
    /\ UNCHANGED <<orders, items, descriptions, users, books, loans, tokens, now>>

(* checkout from the loop to the return: the loop tests the loaded objects; *)
(* the commit updates is_sold of the marked rows.                           *)
checkout_commit_rereads(w) ==
    /\ request[w].route = "checkout"
    /\ response[w] = NoResponse
    /\ LET r == CheckoutLoop(items, request[w].loaded, 1, EmptyFn)
       IN IF r.status = 200
            THEN /\ items' = CommitSession(items, r.session)
                 /\ session' = [session EXCEPT ![w] = EmptyFn]
                 /\ response' = [response EXCEPT ![w] = Response(200, 1)]
            ELSE /\ session' = [session EXCEPT ![w] = r.session]
                 /\ response' = [response EXCEPT ![w] = Response(r.status, 0)]
                 /\ UNCHANGED items
    /\ UNCHANGED request
    /\ UNCHANGED <<orders, descriptions, users, books, loans, tokens, now>>

checkout_commit(w) ==
    /\ request[w].route = "checkout"
    /\ response[w] = NoResponse
    /\ LET r == CheckoutLoop(request[w].read, request[w].loaded, 1, EmptyFn)
       IN IF r.status = 200
            THEN /\ items' = CommitSession(items, r.session)
                 /\ session' = [session EXCEPT ![w] = EmptyFn]
                 /\ response' = [response EXCEPT ![w] = Response(200, 1)]
            ELSE /\ session' = [session EXCEPT ![w] = r.session]
                 /\ response' = [response EXCEPT ![w] = Response(r.status, 0)]
                 /\ UNCHANGED items
    /\ UNCHANGED request
    /\ UNCHANGED <<orders, descriptions, users, books, loans, tokens, now>>

(* add_book up to the load of loan.books. *)
add_book_load(w, loan_id, book_id) ==
    /\ WorkerIdle(w)
    /\ loan_id \in DOMAIN loans
    /\ book_id \in DOMAIN books
    /\ request' = [request EXCEPT ![w] =
                      [route |-> "add_book", loan_id |-> loan_id, book_id |-> book_id,
                       read |-> loans[loan_id].books]]
    /\ UNCHANGED <<response, session>>
    /\ UNCHANGED <<orders, items, descriptions, users, books, loans, tokens, now>>

(* add_book from the test to the return: the test is on the loaded list;    *)
(* the commit inserts one row into loan_book, which has no key.             *)
add_book_commit(w) ==
    /\ request[w].route = "add_book"
    /\ response[w] = NoResponse
    /\ IF add_book_guard(request[w].read, request[w].book_id)
         THEN /\ loans' = AppendBook(loans, request[w].loan_id, request[w].book_id)
              /\ response' = [response EXCEPT ![w] = Response(200, 1)]
         ELSE /\ response' = [response EXCEPT ![w] = Response(400, 0)]
              /\ UNCHANGED loans
    /\ UNCHANGED <<request, session>>
    /\ UNCHANGED <<orders, items, descriptions, users, books, tokens, now>>

(* The teardown of one thread's request. *)
worker_teardown(w) ==
    /\ response[w] # NoResponse
    /\ request' = [request EXCEPT ![w] = NoRequest]
    /\ response' = [response EXCEPT ![w] = NoResponse]
    /\ session' = [session EXCEPT ![w] = EmptyFn]
    /\ UNCHANGED <<orders, items, descriptions, users, books, loans, tokens, now>>

(* The tables when the threads start: one order with any items, one book    *)
(* and one loan with the book on it or not.                                 *)
InitRace ==
    /\ orders = {1}
    /\ items \in UNION {[ids -> ItemRows({1})] : ids \in SUBSET ItemIds}
    /\ descriptions = DescriptionIds
    /\ users = EmptyFn
    /\ books = [b \in {1} |-> [title |-> <<"D", "u", "n", "e">>, isbn |-> "isbn-1"]]
    /\ loans \in {[l \in {1} |-> [user_id |-> 1, books |-> bs]] : bs \in {<<>>, <<1>>}}
    /\ tokens = {}
    /\ now = 0
    /\ session = [w \in Workers |-> EmptyFn]
    /\ request = [w \in Workers |-> NoRequest]
    /\ response = [w \in Workers |-> NoResponse]

NextRace ==
    \/ \E w \in Workers, l \in UNION {LoadOrders(S) : S \in SUBSET ItemIds} :
          checkout_load(w, 1, l)
    \/ \E w \in Workers : checkout_commit(w)
    \/ \E w \in Workers : add_book_load(w, 1, 1)
    \/ \E w \in Workers : add_book_commit(w)
    \/ \E w \in Workers : worker_teardown(w)

SpecRace == InitRace /\ [][NextRace]_vars

----------------------------------------------------------------------------
(* Practice_Solutions/Inventory_Order_Solutions.py, a program of its own.   *)
(* In its specification orders is the table order id -> [status, user_id],  *)
(* items the table item id -> [order_id, description_id] and descriptions   *)
(* the set of catalog entry ids.                                            *)

Pending == "Pending"
Completed == "Completed"

(* POST /inventory/catalog; data['title'] of a body without title is a      *)
(* KeyError.                                                                *)
create_catalog_entry(has_title) ==
    /\ Idle
    /\ Cardinality(descriptions) < MaxDescriptions
    /\ request' = [route |-> "create_catalog_entry", has_title |-> has_title]
    /\ IF ~has_title
         THEN /\ response' = Response(500, 0)
              /\ UNCHANGED descriptions
         ELSE /\ descriptions' = descriptions \cup {NextId(descriptions)}
              /\ response' = Response(201, 1)
    /\ UNCHANGED <<orders, items, session, users, books, loans, tokens, now>>

(* POST /inventory/<desc_id>/add-stock *)
add_stock(desc_id) ==
    /\ Idle
    /\ Cardinality(DOMAIN items) < MaxItems
    /\ request' = [route |-> "add_stock", desc_id |-> desc_id]
    /\ IF desc_id \notin descriptions
         THEN /\ response' = Response(404, 0)
              /\ UNCHANGED items
         ELSE /\ items' = [i \in DOMAIN items \cup {NextId(DOMAIN items)} |->
                              IF i \in DOMAIN items THEN items[i]
                              ELSE [order_id |-> NULL, description_id |-> desc_id]]
              /\ response' = Response(201, 1)
    /\ UNCHANGED <<orders, descriptions, session, users, books, loans, tokens, now>>

(* POST /orders of the practice solution; Orders.user_id is not nullable,   *)
(* so a body without user_id fails at the commit.                           *)
create_order_solution(has_user_id) ==
    /\ Idle
    /\ Cardinality(DOMAIN orders) < MaxOrders
    /\ request' = [route |-> "create_order", has_user_id |-> has_user_id]
    /\ IF ~has_user_id
         THEN /\ response' = Response(500, 0)
              /\ UNCHANGED orders
         ELSE /\ orders' = [o \in DOMAIN orders \cup {NextId(DOMAIN orders)} |->
                               IF o \in DOMAIN orders THEN orders[o]
                               ELSE [status |-> Pending, user_id |-> 1]]
              /\ response' = Response(201, 1)
    /\ UNCHANGED <<items, descriptions, session, users, books, loans, tokens, now>>

(* POST /orders/<order_id>/add/<item_id> *)
add_item_to_order_any_status(order_id, item_id) ==
    /\ Idle
    /\ request' = [route |-> "add_item_to_order", order_id |-> order_id, item_id |-> item_id]
    /\ IF order_id \notin DOMAIN orders \/ item_id \notin DOMAIN items
         THEN /\ response' = Response(404, 0)
              /\ UNCHANGED items
         ELSE IF items[item_id].order_id # NULL
         THEN /\ response' = Response(400, 0)
              /\ UNCHANGED items
         ELSE /\ items' = [items EXCEPT ![item_id].order_id = order_id]
              /\ response' = Response(200, 1)
    /\ UNCHANGED <<orders, descriptions, session, users, books, loans, tokens, now>>

add_item_to_order(order_id, item_id) ==
    /\ Idle
    /\ request' = [route |-> "add_item_to_order", order_id |-> order_id, item_id |-> item_id]
    /\ IF order_id \notin DOMAIN orders \/ item_id \notin DOMAIN items
         THEN /\ response' = Response(404, 0)
              /\ UNCHANGED items
         ELSE IF orders[order_id].status # Pending
         THEN /\ response' = Response(400, 0)
              /\ UNCHANGED items
         ELSE IF items[item_id].order_id # NULL
         THEN /\ response' = Response(400, 0)
              /\ UNCHANGED items
         ELSE /\ items' = [items EXCEPT ![item_id].order_id = order_id]
              /\ response' = Response(200, 1)
    /\ UNCHANGED <<orders, descriptions, session, users, books, loans, tokens, now>>

(* POST /orders/<order_id>/checkout of the practice solution; the mock      *)
(* payment always succeeds.                                                 *)
checkout_solution(order_id) ==
    /\ Idle
    /\ request' = [route |-> "checkout", order_id |-> order_id]
    /\ IF order_id \notin DOMAIN orders
         THEN /\ response' = Response(404, 0)
              /\ UNCHANGED orders
         ELSE IF OrderItems(items, order_id) = {}
         THEN /\ response' = Response(400, 0)
              /\ UNCHANGED orders
         ELSE /\ orders' = [orders EXCEPT ![order_id].status = Completed]
              /\ response' = Response(200, 1)
    /\ UNCHANGED <<items, descriptions, session, users, books, loans, tokens, now>>

InitSolution ==
    /\ orders = EmptyFn
    /\ items = EmptyFn
    /\ descriptions = {}
    /\ session = EmptyFn
    /\ users = EmptyFn
    /\ books = EmptyFn
    /\ loans = EmptyFn
    /\ tokens = {}
    /\ now = 0
    /\ request = NoRequest
    /\ response = NoResponse

NextSolution ==
    \/ \E t \in BOOLEAN : create_catalog_entry(t)
    \/ \E d \in 1..MaxDescriptions : add_stock(d)
    \/ \E u \in BOOLEAN : create_order_solution(u)
    \/ \E o \in OrderIds, i \in ItemIds : add_item_to_order(o, i)
    \/ \E o \in OrderIds : checkout_solution(o)
    \/ Teardown

SpecSolution == InitSolution /\ [][NextSolution]_vars

----------------------------------------------------------------------------
(* Properties of the orders blueprint *)

(* A step that serves GET /orders/checkout/<order_id> for a stored order. *)
CheckoutOfStoredOrder ==
    /\ Idle
    /\ request'.route = "checkout"
    /\ request'.order_id \in orders

(* The position in the loaded list of the first item that is already sold. *)
FirstSold(tbl, loaded) ==
    CHOOSE k \in 1..Len(loaded) :
        /\ tbl[loaded[k]].is_sold
        /\ \A j \in 1..(k - 1) : ~tbl[loaded[j]].is_sold

(* C1: a checkout of an order that holds an already-sold item answers 400   *)
(* and commits nothing; at the handler's return the session holds is_sold   *)
(* = True for exactly the items iterated before the first sold one, and no  *)
(* item iterated after it is marked.                                        *)
C1_CheckoutConflictLeavesPartialMarks ==
    [][(/\ CheckoutOfStoredOrder
        /\ \E i \in OrderItems(items, request'.order_id) : items[i].is_sold)
       => LET l == request'.loaded
              k == FirstSold(items, l)
          IN /\ response'.status = 400
             /\ response'.commits = 0
             /\ items' = items
             /\ DOMAIN session' = {l[j] : j \in 1..(k - 1)}
             /\ \A i \in DOMAIN session' : session'[i] = TRUE
             /\ \A j \in k..Len(l) : l[j] \notin DOMAIN session']_vars

C1_Witness ==
    /\ request.route = "checkout"
    /\ response.status = 400
    /\ \E a, b, c \in 1..Len(request.loaded) :
        /\ a < b /\ b < c
        /\ request.loaded[a] \in DOMAIN session
        /\ items[request.loaded[b]].is_sold
        /\ ~items[request.loaded[c]].is_sold
        /\ request.loaded[c] \notin DOMAIN session

(* C2: a checkout of a stored order whose items are all unsold answers 200  *)
(* with one commit; afterwards every item of the order is sold and every    *)
(* other item row is as before.                                             *)
C2_CheckoutMarksAllItemsOfOrder ==
    [][(/\ CheckoutOfStoredOrder
        /\ \A i \in OrderItems(items, request'.order_id) : ~items[i].is_sold)
       => /\ response' = Response(200, 1)
          /\ session' = EmptyFn
          /\ DOMAIN items' = DOMAIN items
          /\ \A i \in DOMAIN items :
                IF items[i].order_id = request'.order_id
                  THEN items'[i] = [items[i] EXCEPT !.is_sold = TRUE]
                  ELSE items'[i] = items[i]]_vars

C2_Witness ==
    /\ request.route = "checkout"
    /\ response = Response(200, 1)
    /\ Cardinality(OrderItems(items, request.order_id)) >= 2
    /\ \A i \in OrderItems(items, request.order_id) : items[i].is_sold
    /\ \E i \in DOMAIN items : items[i].order_id # request.order_id /\ ~items[i].is_sold

(* C3: a stored item that is sold stays stored and sold in every later state, *)
(* whatever request is served, failed checkouts included.                     *)
C3_SoldIsPermanent ==
    [][\A i \in DOMAIN items :
          items[i].is_sold => (i \in DOMAIN items' /\ items'[i].is_sold)]_vars

C3_Witness ==
    /\ request.route = "checkout"
    /\ response.status = 400
    /\ session # EmptyFn
    /\ \E i \in OrderItems(items, request.order_id) : items[i].is_sold

(* C4: add_item for an item whose order_id is already set answers 400 and   *)
(* changes neither the item rows nor the orders.                            *)
C4_AddItemRejectsItemInOrder ==
    [][(/\ Idle
        /\ request'.route = "add_item"
        /\ request'.item_id \in DOMAIN items
        /\ items[request'.item_id].order_id # NULL)
       => /\ response'.status = 400
          /\ items' = items
          /\ orders' = orders]_vars

----------------------------------------------------------------------------
(* Properties of the loans blueprint *)

(* The number of positions of a list that hold x. *)
Occurrences(list, x) == Cardinality({k \in 1..Len(list) : list[k] = x})

(* A step that serves the given loans route for a stored loan and a stored book. *)
LoanBookStep(route) ==
    /\ Idle
    /\ request'.route = route
    /\ request'.loan_id \in DOMAIN loans
    /\ request'.book_id \in DOMAIN books

(* C5: no loan's books hold a book twice; add-book of a linked book answers *)
(* 400 and changes no loan; add-book of an unlinked book answers 200,       *)
(* appends the book once to that loan only and returns the updated books.   *)
C5_AddBookKeepsBooksDistinct ==
    /\ [](\A l \in DOMAIN loans : \A b \in Range(loans[l].books) :
              Occurrences(loans[l].books, b) = 1)
    /\ [][LoanBookStep("add_book")
          => LET l == request'.loan_id
                 b == request'.book_id
             IN IF b \in Range(loans[l].books)
                  THEN /\ response'.status = 400
                       /\ loans' = loans
                  ELSE /\ response'.status = 200
                       /\ loans'[l].books = Append(loans[l].books, b)
                       /\ Occurrences(loans'[l].books, b) = 1
                       /\ response'.books = loans'[l].books
                       /\ \A m \in DOMAIN loans' : m # l => loans'[m] = loans[m]]_vars

C5_Witness ==
    /\ request.route = "add_book"
    /\ response.status = 400
    /\ request.loan_id \in DOMAIN loans
    /\ request.book_id \in Range(loans[request.loan_id].books)
    /\ Len(loans[request.loan_id].books) = 2

(* C6: remove-book of a linked book answers 200, removes that book from     *)
(* that loan and nothing else, and returns the updated books; remove-book   *)
(* of an unlinked book answers 400 and changes no loan; and undoing an      *)
(* add-book by a remove-book of the same book gives back the loans as they  *)
(* were.                                                                    *)
C6_RemoveBookInvertsAddBook ==
    /\ [][LoanBookStep("remove_book")
          => LET l == request'.loan_id
                 b == request'.book_id
             IN IF b \in Range(loans[l].books)
                  THEN /\ response'.status = 200
                       /\ Range(loans'[l].books) = Range(loans[l].books) \ {b}
                       /\ Len(loans'[l].books) = Len(loans[l].books) - 1
                       /\ response'.books = loans'[l].books
                       /\ \A m \in DOMAIN loans' : m # l => loans'[m] = loans[m]
                  ELSE /\ response'.status = 400
                       /\ loans' = loans]_vars
    /\ [](\A l \in DOMAIN loans : \A b \in DOMAIN books :
              add_book_guard(loans[l].books, b)
              => /\ remove_book_guard(AppendBook(loans, l, b)[l].books, b)
                 /\ RemoveBook(AppendBook(loans, l, b), l, b) = loans)

C6_Witness ==
    /\ request.route = "remove_book"
    /\ response.status = 200
    /\ Len(response.books) = 1
    /\ \E m \in DOMAIN loans : m # request.loan_id /\ loans[m].books # <<>>

----------------------------------------------------------------------------
(* Properties of token_required and the routes it protects *)

ProtectedRoutes == {"read_user", "delete_user", "update_user"}

CarriesToken(header) == header.present /\ Len(header.words) >= 2

(* The request being answered is one to a protected route that carries the token. *)
AnsweredWith(token) ==
    /\ request.route \in ProtectedRoutes
    /\ CarriesToken(request.header)
    /\ request.header.words[2] = token

(* A step that serves a request to a protected route. *)
ProtectedStep ==
    /\ Idle
    /\ request'.route \in ProtectedRoutes

(* The exp claim lies before the clock, both in whole seconds. *)
Expired(token, t) == token.exp < Seconds(t)

CorrectlySigned(token) == token.format = "jwt" /\ token.key = SECRET_KEY

TablesUnchanged == UNCHANGED <<orders, items, descriptions, users, books, loans>>

(* C7 as stated: a token issued for user U at instant t is accepted, with   *)
(* U's id in request.logged_in_user_id, by every request up to t + 1 hour,  *)
(* and rejected, the view not run, by every request after t + 1 hour.       *)
C7_TokenHonouredExactlyOneHour ==
    \A e \in tokens :
        AnsweredWith(e.token)
        => IF now <= e.at + HourTicks
             THEN /\ request.ran
                  /\ request.logged_in_user_id = Str(e.user_id)
             ELSE /\ ~request.ran
                  /\ response.status \in {401, 403}

(* C7 amended: a token issued for user U at instant t is accepted, with the *)
(* decimal string of U's id in request.logged_in_user_id, by every request  *)
(* up to t + 1 hour, and rejected with 403, the view not run, by every      *)
(* request from t + 1 hour + 1 second on.                                   *)
C7_TokenHonouredOneHourToTheSecond ==
    \A e \in tokens :
        AnsweredWith(e.token)
        => /\ now <= e.at + HourTicks
                => /\ request.ran
                   /\ request.logged_in_user_id = Str(e.user_id)
                   /\ IntOf(request.logged_in_user_id) = e.user_id
           /\ now >= e.at + HourTicks + TicksPerSecond
                => /\ ~request.ran
                   /\ response.status = 403

C7_Witness ==
    \E e \in tokens :
        /\ AnsweredWith(e.token)
        /\ now = e.at + HourTicks
        /\ e.at > 0
        /\ request.ran
        /\ response.status = 200

(* C8: a request to a protected route with no Authorization header, with a  *)
(* header that has no token after the scheme word, with a malformed token   *)
(* or with a badly signed token is answered 401, the view is not run and    *)
(* the tables are unchanged.                                                *)
C8_BadCredentialsAnswered401 ==
    [][(/\ ProtectedStep
        /\ \/ ~request'.header.present
           \/ Len(request'.header.words) < 2
           \/ ~CorrectlySigned(request'.header.words[2]))
       => /\ response'.status = 401
          /\ ~request'.ran
          /\ TablesUnchanged]_vars

(* C9: a request to a protected route with a correctly signed token whose   *)
(* exp is past is answered 403, the view is not run and the tables are      *)
(* unchanged.                                                               *)
C9_ExpiredTokenAnswered403 ==
    [][(/\ ProtectedStep
        /\ CarriesToken(request'.header)
        /\ CorrectlySigned(request'.header.words[2])
        /\ Expired(request'.header.words[2], now))
       => /\ response'.status = 403
          /\ ~request'.ran
          /\ TablesUnchanged]_vars

C9_Witness ==
    /\ request.route = "update_user"
    /\ request.body_valid
    /\ CarriesToken(request.header)
    /\ CorrectlySigned(request.header.words[2])
    /\ Expired(request.header.words[2], now)
    /\ IntOf(request.header.words[2].sub) \in DOMAIN users
    /\ response.status = 403

(* A token is valid when it is correctly signed and not expired. *)
CarriesValidToken(header, t) ==
    /\ CarriesToken(header)
    /\ CorrectlySigned(header.words[2])
    /\ ~Expired(header.words[2], t)

----------------------------------------------------------------------------
(* Properties of the user blueprint *)

(* C11: POST /users with a body that validates and the email of a stored    *)
(* user answers 400 and leaves the users as they are.                       *)
C11_DuplicateEmailAnswered400 ==
    [][(/\ Idle
        /\ request'.route = "create_user"
        /\ request'.body_valid
        /\ \E u \in DOMAIN users : users[u].email = request'.email)
       => /\ response'.status = 400
          /\ users' = users]_vars

(* C12: no two stored users have the same email. *)
C12_EmailsAreUnique ==
    \A u, v \in DOMAIN users : users[u].email = users[v].email => u = v

C12_Witness ==
    /\ request.route = "update_user"
    /\ request.ran
    /\ request.body_valid
    /\ Cardinality(DOMAIN users) = 2
    /\ \E v \in DOMAIN users :
          /\ v # IntOf(request.logged_in_user_id)
          /\ users[v].email = request.email
    /\ response.status = 500

(* The stored user the credentials of a login request belong to, NULL when  *)
(* the email is not stored or the password is not the one that was hashed.  *)
CredentialsOwner(tbl, req) ==
    IF \E u \in DOMAIN tbl :
          /\ tbl[u].email = req.email
          /\ tbl[u].password = generate_password_hash(req.password)
    THEN CHOOSE u \in DOMAIN tbl :
          /\ tbl[u].email = req.email
          /\ tbl[u].password = generate_password_hash(req.password)
    ELSE NULL

C19_CreateUserStoresHashedPassword ==
    [][(/\ Idle
        /\ request'.route = "create_user"
        /\ request'.body_valid
        /\ ~ \E u \in DOMAIN users : users[u].email = request'.email)
       => /\ response'.status = 201
          /\ \E u \in DOMAIN users' \ DOMAIN users :
                /\ DOMAIN users' = DOMAIN users \cup {u}
                /\ \A v \in DOMAIN users : users'[v] = users[v]
                /\ users'[u].email = request'.email
                /\ check_password_hash(users'[u].password, request'.password)
                /\ users'[u].password # request'.password]_vars

C19_Witness ==
    /\ request.route = "create_user"
    /\ response.status = 201
    /\ Cardinality(DOMAIN users) = 2
    /\ \E u \in DOMAIN users :
          /\ users[u].email = request.email
          /\ users[u].password = "scrypt$pw"

(* The header that carries a token. *)
Bearer(token) == Header(<<"Bearer", token>>)

(* The roles a role claim is drawn from. *)
RoleClaims == {DefaultRole, "Admin", "Root"}

(* C13: two requests to a token-protected route that differ only in the     *)
(* role claim of their valid token get the same response and leave the same *)
(* users table, in every state in which a request can arrive.               *)
C13_RoleClaimDoesNotMatter ==
    \A i \in tokens, r \in RoleClaims :
       LET h1 == Bearer(i.token)
           h2 == Bearer([i.token EXCEPT !.role = r])
       IN (Idle /\ DecodeStatus(i.token, now) = 0)
          => /\ read_user_outcome(users, h1, now) = read_user_outcome(users, h2, now)
             /\ delete_user_outcome(users, loans, h1, now)
                   = delete_user_outcome(users, loans, h2, now)
             /\ \A f \in UserBodies, e \in Emails, p \in Passwords :
                   update_user_outcome(users, h1, now, f, e, p, NoRole)
                      = update_user_outcome(users, h2, now, f, e, p, NoRole)

C13_Witness ==
    /\ request.route = "delete_user"
    /\ request.ran
    /\ response.status = 200
    /\ request.header.words[2].role = DefaultRole
    /\ \E u \in DOMAIN users : users[u].role = "Admin"

(* C16: PUT /users with a valid token of a stored user and a body that has  *)
(* only some of the user fields answers 200, sets the supplied fields and   *)
(* leaves the user's other fields and the other users as they are.          *)
C16_PartialUpdateSetsSuppliedFields ==
    [][(/\ Idle
        /\ request'.route = "update_user"
        /\ request'.ran
        /\ UserById(users, request'.logged_in_user_id) # NULL
        /\ request'.supplied # {}
        /\ request'.supplied # RequiredUserFields
        /\ request'.supplied \subseteq RequiredUserFields)
       => LET u == UserById(users, request'.logged_in_user_id)
          IN /\ response'.status = 200
             /\ DOMAIN users' = DOMAIN users
             /\ \A v \in DOMAIN users \ {u} : users'[v] = users[v]
             /\ users'[u].role = users[u].role
             /\ users'[u].email =
                   IF "email" \in request'.supplied
                     THEN request'.email ELSE users[u].email
             /\ users'[u].password =
                   IF "password" \in request'.supplied
                     THEN generate_password_hash(request'.password)
                     ELSE users[u].password]_vars

----------------------------------------------------------------------------
(* Properties of the books blueprint *)

(* A step that serves a request of the books or loans blueprint that        *)
(* addresses a loan or a book that is not stored.                           *)
AddressesMissingEntity ==
    /\ Idle
    /\ \/ /\ request'.route \in {"update_book", "delete_book"}
          /\ request'.book_id \notin DOMAIN books
       \/ /\ request'.route \in {"add_book", "remove_book"}
          /\ \/ request'.loan_id \notin DOMAIN loans
             \/ request'.book_id \notin DOMAIN books

(* C14: an operation that addresses an entity by an id that is not stored   *)
(* answers 404 and leaves the tables as they are.                           *)
C14_MissingEntityAnswered404 ==
    [][AddressesMissingEntity
       => /\ response'.status = 404
          /\ TablesUnchanged]_vars

Min(a, b) == IF a < b THEN a ELSE b

(* ceil(a / b) for b > 0 *)
CeilDiv(a, b) == (a + b - 1) \div b

(* C20: GET /books with page=p and per_page=n answers with the               *)
(* min(n, max(0, total - (p-1)*n)) books of page p, never with all books    *)
(* when there are more than n, and with total_pages = ceil(total / n).      *)
C20_GetBooksReturnsThePage ==
    [][(/\ Idle
        /\ request'.route = "get_books"
        /\ ~IntRaises(request'.page) /\ request'.page.value >= 1
        /\ ~IntRaises(request'.per_page) /\ request'.per_page.value >= 1)
       => LET p == request'.page.value
              n == request'.per_page.value
              total == Cardinality(DOMAIN books)
          IN /\ Len(response'.books) = Min(n, Max({0, total - (p - 1) * n}))
             /\ total > n => Len(response'.books) < total
             /\ "total_pages" \in DOMAIN response'
             /\ response'.total_pages = CeilDiv(total, n)]_vars

----------------------------------------------------------------------------
(* Properties of the create, update and delete routes *)

(* A step that serves a create or update request whose body fails the       *)
(* route's schema: a required field is missing.                             *)
BodyFailsValidation ==
    /\ Idle
    /\ \/ /\ request'.route \in {"create_user", "create_book", "create_loan",
                                 "create_order", "create_item_description",
                                 "update_book"}
          /\ ~request'.body_valid
       \/ /\ request'.route = "create_item"
          /\ ~request'.body_has_description_id
       \/ /\ request'.route = "update_user"
          /\ ~(RequiredUserFields \subseteq request'.supplied)

C17_DeleteUserRemovesTheUser ==
    [][(/\ Idle
        /\ request'.route = "delete_user"
        /\ request'.ran
        /\ UserById(users, request'.logged_in_user_id) # NULL)
       => LET u == UserById(users, request'.logged_in_user_id)
          IN /\ response'.status = 200
             /\ DOMAIN users' = DOMAIN users \ {u}
             /\ \A v \in DOMAIN users' : users'[v] = users[v]]_vars

----------------------------------------------------------------------------
(* Properties of the book search *)

(* q occurs in text as a run of consecutive characters, letter case ignored. *)
ContainsIgnoringCase(text, q) ==
    \E k \in 1..(Len(text) + 1) :
       /\ k + Len(q) - 1 <= Len(text)
       /\ \A j \in 1..Len(q) : Lower(text[k + j - 1]) = Lower(q[j])

(* C21: GET /books/search?title=q answers with exactly the stored books     *)
(* whose title contains q, letter case ignored.                             *)
C21_SearchReturnsTitlesContaining ==
    [][(Idle /\ request'.route = "search_books" /\ request'.title.given)
       => response'.books =
             {b \in DOMAIN books :
                 ContainsIgnoringCase(books[b].title, request'.title.text)}]_vars

----------------------------------------------------------------------------
(* Properties of concurrent requests *)

(* C22: checkouts are not coordinated: a checkout that read the items of    *)
(* its order as unsold answers 200 and marks them, whatever another request *)
(* has committed since it read them; so two checkouts of one order that     *)
(* both read before either commits both answer 200.                         *)
C22_ConcurrentCheckoutsBothSucceed ==
    [][\A w \in Workers :
          (/\ request[w].route = "checkout"
           /\ response[w] = NoResponse
           /\ response'[w] # NoResponse
           /\ \A i \in DOMAIN request[w].read : ~request[w].read[i].is_sold)
          => /\ response'[w].status = 200
             /\ \A i \in DOMAIN request[w].read : items'[i].is_sold]_vars

C22_Witness ==
    /\ \A w \in Workers :
          /\ request[w].route = "checkout"
          /\ request[w].order_id = 1
          /\ request[w].loaded # <<>>
          /\ response[w].status = 200
    /\ \E i \in DOMAIN items : items[i].order_id = 1 /\ items[i].is_sold

(* C24: when two add-book requests for one loan and one book are            *)
(* interleaved, at most one is accepted and the loan has the book once.     *)
C24_InterleavedAddBookAcceptedOnce ==
    /\ \A l \in DOMAIN loans, b \in DOMAIN books : Occurrences(loans[l].books, b) <= 1
    /\ \A v, w \in Workers :
          (/\ v # w
           /\ request[v].route = "add_book" /\ request[w].route = "add_book"
           /\ request[v].loan_id = request[w].loan_id
           /\ request[v].book_id = request[w].book_id)
          => ~(response[v].status = 200 /\ response[w].status = 200)

----------------------------------------------------------------------------
(* Properties of the stored users *)

(* C23: every stored user's role is "User" or "Admin". *)
C23_RoleIsUserOrAdmin ==
    \A u \in DOMAIN users : users[u].role \in {"User", "Admin"}

----------------------------------------------------------------------------
(* Properties of failed checkouts *)

(* The request just served was a checkout that answered with an error. *)
CheckoutFailed ==
    /\ request.route = "checkout"
    /\ response.status >= 400

(* C25: a checkout that answers with an error persists no mark: the step    *)
(* that serves it leaves the items as they are, the marks it made are       *)
(* dropped before the next request, and no later request starts with        *)
(* pending marks that its commit could persist.                             *)
C25_FailedCheckoutPersistsNothing ==
    [][/\ (Idle /\ request'.route = "checkout" /\ response'.status >= 400)
          => items' = items
       /\ CheckoutFailed => (items' = items /\ session' = EmptyFn)
       /\ Idle => session = EmptyFn]_vars

C25_Witness ==
    /\ CheckoutFailed
    /\ response.status = 400
    /\ Cardinality(DOMAIN session) >= 2
    /\ \A i \in DOMAIN session : session[i] /\ ~items[i].is_sold

(* The request just served was a checkout of order o. *)
CheckoutServed(o) ==
    /\ request.route = "checkout"
    /\ request.order_id = o

(* C26: after a checkout of a non-empty order has answered 200, every later *)
(* checkout of that order answers 400, commits nothing and leaves every     *)
(* item of the order sold.                                                  *)
C26_OrderCheckedOutAtMostOnce ==
    \A o \in OrderIds :
       []((CheckoutServed(o) /\ response.status = 200 /\ request.loaded # <<>>)
          => [](Idle
                => [](CheckoutServed(o)
                      => /\ response = Response(400, 0)
                         /\ \A i \in OrderItems(items, o) : items[i].is_sold)))

C26_Witness ==
    /\ CheckoutServed(2)
    /\ response = Response(400, 0)
    /\ session = EmptyFn
    /\ Cardinality(OrderItems(items, 2)) >= 2
    /\ \A i \in OrderItems(items, 2) : items[i].is_sold

----------------------------------------------------------------------------
(* Properties of the relationships *)

C28_LoanUserExists ==
    \A l \in DOMAIN loans : loans[l].user_id \in DOMAIN users

(* C29: a token issued for a user never addresses another account. The      *)
(* views address the account by the token's subject alone, so this is: no   *)
(* user is created under an id that is the subject of a token issued        *)
(* before and still unexpired.                                              *)
C29_TokenAddressesOnlyItsAccount ==
    [][(Idle /\ request'.route = "create_user" /\ response'.status = 201)
       => \A i \in tokens :
             DecodeStatus(i.token, now) = 0
                => IntOf(i.token.sub) \notin DOMAIN users' \ DOMAIN users]_vars

----------------------------------------------------------------------------
(* Properties of Practice_Solutions/Inventory_Order_Solutions.py *)

(* C30: an order's status is Pending or Completed and never leaves          *)
(* Completed; the items of a Completed order never change;                  *)
(* add_item_to_order of a stored item to a stored order answers 400 and     *)
(* writes nothing when the order is not Pending or the item has an          *)
(* order_id; checkout of a stored order without items answers 400 and       *)
(* leaves it Pending.                                                       *)
C30_CompletedOrderIsFinal ==
    [][/\ \A o \in DOMAIN orders :
             /\ o \in DOMAIN orders'
             /\ orders'[o].status \in {Pending, Completed}
             /\ orders[o].status = Completed
                   => /\ orders'[o].status = Completed
                      /\ OrderItems(items', o) = OrderItems(items, o)
       /\ (/\ Idle
           /\ request'.route = "add_item_to_order"
           /\ request'.order_id \in DOMAIN orders
           /\ request'.item_id \in DOMAIN items
           /\ \/ orders[request'.order_id].status # Pending
              \/ items[request'.item_id].order_id # NULL)
          => /\ response'.status = 400
             /\ items' = items
             /\ orders' = orders
       /\ (/\ Idle
           /\ request'.route = "checkout"
           /\ request'.order_id \in DOMAIN orders
           /\ OrderItems(items, request'.order_id) = {})
          => /\ response'.status = 400
             /\ orders' = orders
             /\ orders'[request'.order_id].status = Pending]_vars

C30_Witness ==
    /\ request.route = "add_item_to_order"
    /\ request.order_id \in DOMAIN orders
    /\ request.item_id \in DOMAIN items
    /\ orders[request.order_id].status = Completed
    /\ items[request.item_id].order_id = NULL
    /\ response.status = 400

====
